---- MODULE Spec2Model ----
(***************************************************************************)
(* Model of panel_measure.py (Blender "Measure" panel, v0.6.1).            *)
(*                                                                         *)
(* Floats are modelled exactly as normalised rationals [n, d].  A length   *)
(* (Vector.length) is modelled by its square, so measure_panel_dist holds  *)
(* the square of the float the scene property holds; areas and volumes are *)
(* kept as they are.  Python values handed to the helper methods are       *)
(* tagged: an object reference, a list of references, or None.             *)
(***************************************************************************)
EXTENDS Integers, Sequences, FiniteSets, TLC

VARIABLES mode, measure_panel_transform, selected_objects, active_object,
          cursor_location, objects, unit_settings,
          measure_panel_dist, layout, raised, result, call, mode_set_calls

vars == <<mode, measure_panel_transform, selected_objects, active_object,
          cursor_location, objects, unit_settings,
          measure_panel_dist, layout, raised, result, call, mode_set_calls>>

(***************************************************************************)
(* Bounds of the model.                                                    *)
(***************************************************************************)
NumObjs == 3
MaxScale == 2
MaxDegree == 5
MaxArgs == 3

(***************************************************************************)
(* Exact arithmetic standing for Python floats.                            *)
(***************************************************************************)
Abs(x) == IF x < 0 THEN -x ELSE x

RECURSIVE GCD(_, _)
GCD(a, b) == IF b = 0 THEN a ELSE GCD(b, a % b)

Rat(n, d) ==
    LET s == IF d < 0 THEN -1 ELSE 1
        g == GCD(Abs(n), Abs(d))
    IN  [n |-> (s * n) \div g, d |-> (s * d) \div g]

RInt(k) == [n |-> k, d |-> 1]
RAdd(a, b) == Rat(a.n * b.d + b.n * a.d, a.d * b.d)
RMul(a, b) == Rat(a.n * b.n, a.d * b.d)
RGe0(a) == a.n >= 0

\* Floor of the square root; exact on perfect squares.
ISqrt(n) == CHOOSE k \in 0..n : k * k <= n /\ (k + 1) * (k + 1) > n

(***************************************************************************)
(* Mathutils.Vector and Mathutils.Matrix as the script uses them.          *)
(* A matrix is the 4x4 object matrix: a 3x3 linear part and a translation  *)
(* row; a 3D vector times a 4x4 matrix is taken with w = 1.                *)
(***************************************************************************)
VSub(a, b) == <<a[1] - b[1], a[2] - b[2], a[3] - b[3]>>
VAdd(a, b) == <<a[1] + b[1], a[2] + b[2], a[3] + b[3]>>
VScale(k, a) == <<k * a[1], k * a[2], k * a[3]>>
Dot(a, b) == a[1] * b[1] + a[2] * b[2] + a[3] * b[3]
Cross(a, b) == <<a[2] * b[3] - a[3] * b[2],
                 a[3] * b[1] - a[1] * b[3],
                 a[1] * b[2] - a[2] * b[1]>>

\* Square of Vector.length.
Length2(a) == Dot(a, a)

\* Row vector times the 3x3 linear part.
VecMulLin(v, L) ==
    <<v[1] * L[1][1] + v[2] * L[2][1] + v[3] * L[3][1],
      v[1] * L[1][2] + v[2] * L[2][2] + v[3] * L[3][2],
      v[1] * L[1][3] + v[2] * L[2][3] + v[3] * L[3][3]>>

\* vec * ob_mat
VecMulMat(v, M) == VAdd(VecMulLin(v, M.lin), M.trans)

Det3(L) ==
      L[1][1] * (L[2][2] * L[3][3] - L[2][3] * L[3][2])
    - L[1][2] * (L[2][1] * L[3][3] - L[2][3] * L[3][1])
    + L[1][3] * (L[2][1] * L[3][2] - L[2][2] * L[3][1])

Adj3(L) ==
    << <<L[2][2] * L[3][3] - L[2][3] * L[3][2],
         L[1][3] * L[3][2] - L[1][2] * L[3][3],
         L[1][2] * L[2][3] - L[1][3] * L[2][2]>>,
       <<L[2][3] * L[3][1] - L[2][1] * L[3][3],
         L[1][1] * L[3][3] - L[1][3] * L[3][1],
         L[1][3] * L[2][1] - L[1][1] * L[2][3]>>,
       <<L[2][1] * L[3][2] - L[2][2] * L[3][1],
         L[1][2] * L[3][1] - L[1][1] * L[3][2],
         L[1][1] * L[2][2] - L[1][2] * L[2][1]>> >>

\* ob_mat.copy().invert(): the inverse is adj / det; Matrix.invert raises
\* ValueError on a matrix without an inverse.
Invert(M) ==
    IF Det3(M.lin) = 0
    THEN [exc |-> "ValueError", adj |-> M.lin, det |-> 0, trans |-> M.trans]
    ELSE [exc |-> "None", adj |-> Adj3(M.lin), det |-> Det3(M.lin),
          trans |-> M.trans]

\* vec * ob_mat_inv, as numerator vector over the denominator inv.det.
VecMulInvNum(v, inv) == VecMulLin(VSub(v, inv.trans), inv.adj)

(***************************************************************************)
(* Host data: meshes.  A mesh is a sequence of vertices [co, selected] and *)
(* a sequence of faces [verts, selected]; face.verts indexes mesh.verts    *)
(* (from 1 here, from 0 in Python).                                        *)
(***************************************************************************)
None == [t |-> "none", id |-> 0, items |-> <<>>]
Ref(i) == [t |-> "obj", id |-> i, items |-> <<>>]
ListOf(s) == [t |-> "list", id |-> 0, items |-> s]

NoMesh == [verts |-> <<>>, faces |-> <<>>, valid |-> FALSE]

\* A mesh whose selection flags follow the selected vertex set sel: a face
\* is selected when all its vertices are.
MkMesh(coords, faceVerts, sel) ==
    [verts |-> [i \in 1..Len(coords) |->
                    [co |-> coords[i], selected |-> i \in sel]],
     faces |-> [j \in 1..Len(faceVerts) |->
                    [verts |-> faceVerts[j],
                     selected |-> \A k \in 1..Len(faceVerts[j]) :
                                      faceVerts[j][k] \in sel]],
     valid |-> TRUE]

\* Twice the area of the triangle a, b, c.
TriArea2(a, b, c) == ISqrt(Length2(Cross(VSub(b, a), VSub(c, a))))

\* face.area: a triangle, or a quad as its two triangles.
FaceArea(mesh, face) ==
    LET co(k) == mesh.verts[face.verts[k]].co
    IN  IF Len(face.verts) = 3
        THEN Rat(TriArea2(co(1), co(2), co(3)), 2)
        ELSE Rat(TriArea2(co(1), co(2), co(3)) + TriArea2(co(1), co(3), co(4)), 2)

\* obj.data.copy() followed by mesh.transform(obj.matrix): the copy with
\* every vertex moved by the matrix.
Transform(mesh, M) ==
    [mesh EXCEPT !.verts = [i \in 1..Len(mesh.verts) |->
                              [mesh.verts[i] EXCEPT !.co = VecMulMat(@, M)]]]

\* A name the code binds to a mesh: the datablock it refers to ("data": the
\* datablock of obj.data, "copy": a new one) and the value held there.
Itself(data) == [block |-> "data", mesh |-> data]

Copy_sameBlock(data) == [block |-> "data", mesh |-> data]

\* obj.data.copy(): a new datablock with the same vertices and faces.
Copy(data) == [block |-> "copy", mesh |-> data]

\* mesh.transform(matrix) writes the vertices of the datablock mesh names.
TransformInPlace(m, M) == [m EXCEPT !.mesh = Transform(@, M)]

\* The value of obj.data once the code is done with the mesh it named m.
DataAfter(data, m) == IF m.block = "data" THEN m.mesh ELSE data

\* An object of the scene; the translation row of its matrix is its location.
MkObj(name, type, location, lin, data) ==
    [name |-> name, type |-> type, location |-> location,
     matrix |-> [lin |-> lin, trans |-> location], data |-> data]

(***************************************************************************)
(* OBJECT_OT_reenter_editmode.  A run of the operator is followed on the   *)
(* host state [mode, calls]: context.mode and the mode_set calls issued.   *)
(***************************************************************************)
\* bpy.ops.object.mode_set(mode=m) with a mesh as the active object:
\* 'EDIT' enters mesh edit mode, 'OBJECT' leaves it.
mode_set(h, m) ==
    [mode |-> IF m = "EDIT" THEN "EDIT_MESH" ELSE m,
     calls |-> Append(h.calls, m)]

invoke_editFirst ==
    LET obj == active_object
        Finished(h) == [mode |-> h.mode, calls |-> h.calls, ret |-> "FINISHED"]
    IN  IF obj # 0 /\ objects[obj].type = "MESH" /\ mode = "EDIT_MESH"
        THEN Finished(mode_set(mode_set([mode |-> mode, calls |-> <<>>],
                                        "EDIT"), "OBJECT"))
        ELSE [mode |-> mode, calls |-> <<>>, ret |-> "CANCELLED"]

\* invoke(self, context, event): [mode, calls, ret]
invoke ==
    LET obj == active_object
        Finished(h) == [mode |-> h.mode, calls |-> h.calls, ret |-> "FINISHED"]
    IN  IF obj # 0 /\ objects[obj].type = "MESH" /\ mode = "EDIT_MESH"
        THEN Finished(mode_set(mode_set([mode |-> mode, calls |-> <<>>],
                                        "OBJECT"), "EDIT"))
        ELSE [mode |-> mode, calls |-> <<>>, ret |-> "CANCELLED"]

(***************************************************************************)
(* The panel's helpers.  Each returns [ret, exc]: the returned float, or   *)
(* the exception that left the call.                                       *)
(***************************************************************************)
PRECISION == 6

RECURSIVE Pow10(_)
Pow10(k) == IF k = 0 THEN 1 ELSE 10 * Pow10(k - 1)

\* round(x, PRECISION)
Round(x) ==
    LET p == Pow10(PRECISION)
        a == Abs(x.n) * p
        q == (2 * a + x.d) \div (2 * x.d)
    IN  Rat(IF x.n < 0 THEN -q ELSE q, p)

Sentinel == RInt(-1)

Returns(r) == [ret |-> r, exc |-> "None"]
Raises(e) == [ret |-> RInt(0), exc |-> e]

\* measureGlobal(scene), measureLocal(scene)
measureGlobal == measure_panel_transform = "measure_global"
measureLocal == measure_panel_transform = "measure_local"

\* Python truth of a value: None and the empty list are false.
Truthy(v) == v.t = "obj" \/ (v.t = "list" /\ Len(v.items) > 0)

\* obj.type == 'MESH' and obj.data, for an object reference.
IsMeshWithData(v) == objects[v.id].type = "MESH" /\ objects[v.id].data.valid

ScalePow(k) ==
    LET s == unit_settings.scale_length
    IN  RInt(IF k = 2 THEN s * s ELSE s * s * s)

units_deg1bare(degree) ==
    LET unit == IF unit_settings.system = "METRIC" THEN "m"
                ELSE IF unit_settings.system = "IMPERIAL" THEN "yd"
                ELSE "BU"
    IN  IF degree > 1 /\ degree < 4
        THEN unit \o "^" \o ToString(degree)
        ELSE unit

units(degree) ==
    LET unit == IF unit_settings.system = "METRIC" THEN "m"
                ELSE IF unit_settings.system = "IMPERIAL" THEN "yd"
                ELSE "BU"
    IN  IF degree > 0 /\ degree < 4
        THEN unit \o "^" \o ToString(degree)
        ELSE unit

FaceCounted_all(selectedOnly, face) == TRUE

\* not selectedOnly or face.selected
FaceCounted(selectedOnly, face) == ~selectedOnly \/ face.selected

RECURSIVE AreaLoop(_, _, _, _)
AreaLoop(mesh, selectedOnly, i, areaTotal) ==
    IF i > Len(mesh.faces) THEN areaTotal
    ELSE AreaLoop(mesh, selectedOnly, i + 1,
                  IF FaceCounted(selectedOnly, mesh.faces[i])
                  THEN RAdd(areaTotal, FaceArea(mesh, mesh.faces[i]))
                  ELSE areaTotal)

\* The mesh objectSurfaceArea works on: a transformed copy in global space,
\* obj.data itself otherwise.
AreaMesh(o, globalSpace) ==
    IF globalSpace THEN TransformInPlace(Copy(o.data), o.matrix)
    ELSE Itself(o.data)

objectSurfaceArea(obj, selectedOnly, globalSpace) ==
    IF ~Truthy(obj) THEN Returns(Sentinel)
    ELSE IF obj.t = "list" THEN Raises("AttributeError")
    ELSE IF IsMeshWithData(obj)
    THEN LET Measure(mesh) ==
                 Returns(RMul(AreaLoop(mesh, selectedOnly, 1, RInt(0)),
                              ScalePow(2)))
         IN  Measure(AreaMesh(objects[obj.id], globalSpace).mesh)
    ELSE Returns(Sentinel)

TooManyVerts_quadsPass(face) == Len(face.verts) > 4

\* len(face.verts) > 3
TooManyVerts(face) == Len(face.verts) > 3

\* mesh.verts[f.verts[0]].co.cross(mesh.verts[f.verts[1]].co)
\*     .dot(mesh.verts[f.verts[2]].co)
TripleProduct(mesh, face) ==
    Dot(Cross(mesh.verts[face.verts[1]].co, mesh.verts[face.verts[2]].co),
        mesh.verts[face.verts[3]].co)

\* The face loop of objectVolume: [ok, volume]; ok is FALSE when the loop
\* is left by "return -1".
RECURSIVE VolumeLoop(_, _, _)
VolumeLoop(mesh, i, volume) ==
    IF i > Len(mesh.faces) THEN [ok |-> TRUE, volume |-> volume]
    ELSE IF TooManyVerts(mesh.faces[i]) THEN [ok |-> FALSE, volume |-> volume]
    ELSE VolumeLoop(mesh, i + 1, volume + TripleProduct(mesh, mesh.faces[i]))

\* The mesh objectVolume works on: always a copy, transformed in global
\* space.
VolumeMesh(o, globalSpace) ==
    IF globalSpace THEN TransformInPlace(Copy(o.data), o.matrix)
    ELSE Copy(o.data)

objectVolume(obj, globalSpace) ==
    IF ~Truthy(obj) THEN Returns(Sentinel)
    ELSE IF obj.t = "list" THEN Raises("AttributeError")
    ELSE IF ~IsMeshWithData(obj) THEN Returns(Sentinel)
    ELSE LET Finish(loop) ==
                 IF ~loop.ok THEN Returns(Sentinel)
                 ELSE Returns(RMul(Rat(loop.volume, 6), ScalePow(3)))
         IN  Finish(VolumeLoop(VolumeMesh(objects[obj.id], globalSpace).mesh,
                               1, 0))

(***************************************************************************)
(* Layout rows.  layout.row() opens a row; label, prop and operator add an *)
(* item to it.  A label that shows a number keeps the number (rounded) and *)
(* the unit beside its text.                                               *)
(***************************************************************************)
Label(text, icon) ==
    [kind |-> "label", text |-> text, hasval |-> FALSE, value |-> RInt(0),
     unit |-> "", icon |-> icon]
ValueLabel(text, value, unit, icon) ==
    [kind |-> "label", text |-> text, hasval |-> TRUE, value |-> Round(value),
     unit |-> unit, icon |-> icon]
Prop(attr) ==
    [kind |-> "prop", text |-> attr, hasval |-> FALSE, value |-> RInt(0),
     unit |-> "", icon |-> ""]
Operator(text) ==
    [kind |-> "operator", text |-> text, hasval |-> FALSE, value |-> RInt(0),
     unit |-> "", icon |-> "reenter_editmode"]

\* o.name; None and lists have no such attribute.
HasName(o) == o.t = "obj"
NameOf(o) == objects[o.id].name

VolumeCounted_all(volume) == TRUE

\* if(volume >= 0)
VolumeCounted(volume) == RGe0(volume)

\* if(area >= 0)
AreaCounted(area) == RGe0(area)

Failed(e, rows) ==
    [exc |-> e, rows |-> rows, total_area |-> RInt(0), total_volume |-> RInt(0)]

\* The loop of addObjectAreas over objs[i..].
RECURSIVE AreasLoop(_, _, _, _)
AreasLoop(objs, i, total_area, rows) ==
    IF i > Len(objs)
    THEN [exc |-> "None", rows |-> rows, total_area |-> total_area,
          total_volume |-> RInt(0)]
    ELSE LET o == objs[i]
             Step(a) ==
                 IF a.exc # "None" THEN Failed(a.exc, rows)
                 ELSE IF ~HasName(o) THEN Failed("AttributeError", rows)
                 ELSE AreasLoop(objs, i + 1,
                         IF AreaCounted(a.ret) THEN RAdd(total_area, a.ret)
                         ELSE total_area,
                         Append(rows, <<ValueLabel(NameOf(o) \o " S.A.: ",
                                     a.ret, units(2), "OBJECT_DATA")>>))
         IN  Step(objectSurfaceArea(o, FALSE, measureGlobal))

addObjectAreas(objs) ==
    LET Finish(l) ==
            IF l.exc # "None"
            THEN [ret |-> RInt(0), exc |-> l.exc, rows |-> l.rows]
            ELSE [ret |-> l.total_area, exc |-> "None",
                  rows |-> IF Len(objs) > 1 /\ RGe0(l.total_area)
                           THEN Append(l.rows, <<ValueLabel("Total Area: ",
                                    l.total_area, units(2), "OBJECT_DATA")>>)
                           ELSE l.rows]
    IN  Finish(AreasLoop(objs, 1, RInt(0), <<>>))

\* The loop of addAreasAndVolumes over objs[i..].
RECURSIVE AreasAndVolumesLoop(_, _, _, _, _)
AreasAndVolumesLoop(objs, i, total_area, total_volume, rows) ==
    IF i > Len(objs)
    THEN [exc |-> "None", rows |-> rows, total_area |-> total_area,
          total_volume |-> total_volume]
    ELSE LET o == objs[i]
             VolumeStep(a, v, rowsA) ==
                 IF v.exc # "None" THEN Failed(v.exc, rowsA)
                 ELSE AreasAndVolumesLoop(objs, i + 1,
                         IF AreaCounted(a.ret) THEN RAdd(total_area, a.ret)
                         ELSE total_area,
                         IF VolumeCounted(v.ret) THEN RAdd(total_volume, v.ret)
                         ELSE total_volume,
                         Append(rowsA, <<ValueLabel(NameOf(o) \o " Vol.: ",
                                     v.ret, units(3), "OBJECT_DATA")>>))
             AreaStep(a) ==
                 IF a.exc # "None" THEN Failed(a.exc, rows)
                 ELSE IF ~HasName(o) THEN Failed("AttributeError", rows)
                 ELSE VolumeStep(a, objectVolume(o, measureGlobal),
                         Append(rows, <<ValueLabel(NameOf(o) \o " S.A.: ",
                                     a.ret, units(2), "OBJECT_DATA")>>))
         IN  AreaStep(objectSurfaceArea(o, FALSE, measureGlobal))

addAreasAndVolumes(objs) ==
    LET TotalVolume(l, rowsA) ==
            IF RGe0(l.total_volume)
            THEN Append(rowsA, <<ValueLabel("Total Volume: ", l.total_volume,
                                            units(3), "OBJECT_DATA")>>)
            ELSE rowsA
        TotalArea(l) ==
            TotalVolume(l,
                IF RGe0(l.total_area)
                THEN Append(l.rows, <<ValueLabel("Total Area: ", l.total_area,
                                                 units(2), "OBJECT_DATA")>>)
                ELSE l.rows)
        Finish(l) ==
            IF l.exc # "None"
            THEN [ret |-> RInt(0), exc |-> l.exc, rows |-> l.rows]
            ELSE [ret |-> l.total_area, exc |-> "None",
                  rows |-> IF Len(objs) > 1 THEN TotalArea(l) ELSE l.rows]
    IN  Finish(AreasAndVolumesLoop(objs, 1, RInt(0), RInt(0), <<>>))

\* The loop of addObjectVolumes over objs[i..].
RECURSIVE VolumesLoop(_, _, _, _)
VolumesLoop(objs, i, total_volume, rows) ==
    IF i > Len(objs)
    THEN [exc |-> "None", rows |-> rows, total_area |-> RInt(0),
          total_volume |-> total_volume]
    ELSE LET o == objs[i]
             Step(v) ==
                 IF v.exc # "None" THEN Failed(v.exc, rows)
                 ELSE IF ~HasName(o) THEN Failed("AttributeError", rows)
                 ELSE VolumesLoop(objs, i + 1,
                         IF VolumeCounted(v.ret) THEN RAdd(total_volume, v.ret)
                         ELSE total_volume,
                         Append(rows, <<ValueLabel(NameOf(o) \o " Vol.: ",
                                     v.ret, units(3), "OBJECT_DATA")>>))
         IN  Step(objectVolume(o, measureGlobal))

addObjectVolumes(objs) ==
    LET Finish(l) ==
            IF l.exc # "None"
            THEN [ret |-> RInt(0), exc |-> l.exc, rows |-> l.rows]
            ELSE [ret |-> l.total_volume, exc |-> "None",
                  rows |-> IF Len(objs) > 1 /\ RGe0(l.total_volume)
                           THEN Append(l.rows, <<ValueLabel("Total Volume: ",
                                    l.total_volume, units(3), "OBJECT_DATA")>>)
                           ELSE l.rows]
    IN  Finish(VolumesLoop(objs, 1, RInt(0), <<>>))

(***************************************************************************)
(* What the calls leave in the scene's objects: obj.data of every object   *)
(* handed to objectSurfaceArea or objectVolume, as the call left it.       *)
(***************************************************************************)
ObjectsAfterArea(heap, obj, globalSpace) ==
    IF obj.t = "obj" /\ IsMeshWithData(obj)
    THEN [heap EXCEPT ![obj.id].data =
              DataAfter(@, AreaMesh(heap[obj.id], globalSpace))]
    ELSE heap

ObjectsAfterVolume(heap, obj, globalSpace) ==
    IF obj.t = "obj" /\ IsMeshWithData(obj)
    THEN [heap EXCEPT ![obj.id].data =
              DataAfter(@, VolumeMesh(heap[obj.id], globalSpace))]
    ELSE heap

\* The loops of addObjectAreas (areas), addObjectVolumes (volumes) and
\* addAreasAndVolumes (both) over objs[i..]; a value without a name ends
\* the loop in an exception before any mesh is named.
RECURSIVE ObjectsAfterLoop(_, _, _, _, _)
ObjectsAfterLoop(heap, objs, i, areas, volumes) ==
    IF i > Len(objs) THEN heap
    ELSE IF ~HasName(objs[i]) THEN heap
    ELSE LET Area(h) ==
                 IF areas THEN ObjectsAfterArea(h, objs[i], measureGlobal)
                 ELSE h
             Volume(h) ==
                 IF volumes THEN ObjectsAfterVolume(h, objs[i], measureGlobal)
                 ELSE h
         IN  ObjectsAfterLoop(Volume(Area(heap)), objs, i + 1, areas, volumes)

(***************************************************************************)
(* VIEW3D_PT_measure.draw.  Each branch gives [dist, rows, exc]: the value *)
(* scene.measure_panel_dist holds afterwards, the rows laid out before the *)
(* call ended, and the exception that ended it ("None": returned).         *)
(***************************************************************************)
Drawn(dist, rows, exc) == [dist |-> dist, rows |-> rows, exc |-> exc]

TransformRow == <<Prop("measure_panel_transform")>>
DistRow == <<Prop("measure_panel_dist")>>
NotSupportedRow == <<Label("Selection not supported.", "INFO")>>

HasSelectedFaces_three(faces_selected) == Len(faces_selected) >= 3

\* len(faces_selected) > 0
HasSelectedFaces(faces_selected) == Len(faces_selected) > 0

\* The fallback of the edit-mode vertex dispatch (3 or more vertices).
DrawEditFaces(mesh) ==
    LET faces_selected == SelectSeq(mesh.faces, LAMBDA f : f.selected)
        Show(area) ==
            IF area.exc # "None" THEN Drawn(measure_panel_dist, <<>>, area.exc)
            ELSE Drawn(measure_panel_dist,
                       << <<ValueLabel("Selected Face Area: ", area.ret,
                                       units(2), "FACESEL")>>,
                          <<Operator("Update selection & area")>>,
                          TransformRow >>,
                       "None")
    IN  IF HasSelectedFaces(faces_selected)
        THEN Show(objectSurfaceArea(Ref(active_object), TRUE, measureGlobal))
        ELSE Drawn(measure_panel_dist,
                   << NotSupportedRow, <<Operator("Update selection")>> >>,
                   "None")

\* context.mode == 'EDIT_MESH'
DrawEdit ==
    IF active_object = 0 THEN Drawn(measure_panel_dist, <<>>, "None")
    ELSE IF ~IsMeshWithData(Ref(active_object))
    THEN Drawn(measure_panel_dist, <<>>, "None")
    ELSE
    LET obj == objects[active_object]
        mesh == obj.data
        ob_mat == obj.matrix
        ob_mat_inv == Invert(ob_mat)
        verts_selected == SelectSeq(mesh.verts, LAMBDA v : v.selected)
        \* (scene.cursor_location - obj.location) * ob_mat_inv, times det
        cursorLocal == VecMulInvNum(VSub(cursor_location, obj.location),
                                    ob_mat_inv)
        det2 == ob_mat_inv.det * ob_mat_inv.det
        opRow == <<Operator("Update selection & distance")>>
    IN  IF ob_mat_inv.exc # "None"
        THEN Drawn(measure_panel_dist, <<>>, ob_mat_inv.exc)
        ELSE IF Len(verts_selected) = 0
        THEN Drawn(IF measureLocal
                   THEN Rat(Length2(cursorLocal), det2)
                   ELSE RInt(Length2(cursor_location)),
                   << DistRow,
                      <<Label("", "CURSOR"), Label("", "ARROW_LEFTRIGHT"),
                        Label("Origin [0,0,0]", "")>>,
                      opRow, TransformRow >>,
                   "None")
        ELSE IF Len(verts_selected) = 1
        THEN Drawn(IF measureLocal
                   THEN Rat(Length2(VSub(VScale(ob_mat_inv.det,
                                                verts_selected[1].co),
                                         cursorLocal)), det2)
                   ELSE RInt(Length2(VSub(VAdd(VecMulMat(verts_selected[1].co,
                                                         ob_mat),
                                               obj.location),
                                          cursor_location))),
                   << DistRow,
                      <<Label("", "CURSOR"), Label("", "ARROW_LEFTRIGHT"),
                        Label("", "VERTEXSEL")>>,
                      opRow, TransformRow >>,
                   "None")
        ELSE IF Len(verts_selected) = 2
        THEN IF measureLocal
             THEN Drawn(RInt(Length2(VSub(verts_selected[1].co,
                                          verts_selected[2].co))),
                        << DistRow,
                           <<Label("", "VERTEXSEL"),
                             Label("", "ARROW_LEFTRIGHT"),
                             Label("", "VERTEXSEL")>>,
                           opRow, TransformRow >>,
                        "None")
             \* Vector has no attribute "lentgh"
             ELSE Drawn(measure_panel_dist, <<>>, "AttributeError")
        ELSE DrawEditFaces(mesh)

\* context.mode == 'OBJECT'
DrawObject ==
    LET n == Len(selected_objects)
        loc(i) == objects[i].location
        selected(i) == \E k \in 1..n : selected_objects[k] = i
    IN  IF n > 2
        THEN LET mesh_objects == SelectSeq(selected_objects,
                                     LAMBDA o : IsMeshWithData(Ref(o)))
                 Show(r) ==
                     IF r.exc # "None"
                     THEN Drawn(measure_panel_dist, r.rows, r.exc)
                     ELSE Drawn(measure_panel_dist,
                                Append(r.rows, TransformRow), "None")
             IN  IF Len(mesh_objects) > 0
                 \* the list itself is the one positional argument
                 THEN Show(addAreasAndVolumes(<<ListOf(mesh_objects)>>))
                 ELSE Drawn(measure_panel_dist, <<>>, "None")
        ELSE IF n = 2
        THEN LET obj1 == selected_objects[1]
                 obj2 == selected_objects[2]
             \* mesh_objects is not bound in this branch
             IN  Drawn(RInt(Length2(VSub(loc(obj1), loc(obj2)))),
                       << DistRow,
                          <<Label(objects[obj1].name, "OBJECT_DATA"),
                            Label("", "ARROW_LEFTRIGHT"),
                            Label(objects[obj2].name, "OBJECT_DATA")>> >>,
                       "UnboundLocalError")
        ELSE IF active_object # 0 /\ selected(active_object) /\ n = 1
        THEN LET head == << DistRow,
                            <<Label("", "CURSOR"), Label("", "ARROW_LEFTRIGHT"),
                              Label(objects[active_object].name,
                                    "OBJECT_DATA")>> >>
                 dist == RInt(Length2(VSub(loc(active_object),
                                           cursor_location)))
                 Show(r) ==
                     IF r.exc # "None" THEN Drawn(dist, head \o r.rows, r.exc)
                     ELSE Drawn(dist, head \o r.rows \o <<TransformRow>>,
                                "None")
             IN  Show(addAreasAndVolumes(<<Ref(active_object)>>))
        ELSE IF n = 0
        THEN Drawn(RInt(Length2(cursor_location)),
                   << DistRow,
                      <<Label("", "CURSOR"), Label("", "ARROW_LEFTRIGHT"),
                        Label("Origin [0,0,0]", "")>> >>,
                   "None")
        ELSE Drawn(measure_panel_dist, <<NotSupportedRow>>, "None")

Draw ==
    IF mode = "EDIT_MESH" THEN DrawEdit
    ELSE IF mode = "OBJECT" THEN DrawObject
    ELSE Drawn(measure_panel_dist, <<>>, "None")

\* The scene's objects when draw() is over: the edit-mode face branch calls
\* objectSurfaceArea on the active object, the one-object branch calls
\* addAreasAndVolumes on it, the many-objects branch on the list.
ObjectsAfterDraw ==
    IF mode = "EDIT_MESH"
    THEN IF /\ active_object # 0
            /\ IsMeshWithData(Ref(active_object))
            /\ Invert(objects[active_object].matrix).exc = "None"
            /\ Len(SelectSeq(objects[active_object].data.verts,
                             LAMBDA v : v.selected)) > 2
            /\ HasSelectedFaces(SelectSeq(objects[active_object].data.faces,
                                          LAMBDA f : f.selected))
         THEN ObjectsAfterArea(objects, Ref(active_object), measureGlobal)
         ELSE objects
    ELSE IF mode = "OBJECT"
    THEN LET n == Len(selected_objects)
             mesh_objects == SelectSeq(selected_objects,
                                       LAMBDA o : IsMeshWithData(Ref(o)))
         IN  IF n > 2
             THEN IF Len(mesh_objects) > 0
                  THEN ObjectsAfterLoop(objects, <<ListOf(mesh_objects)>>, 1,
                                        TRUE, TRUE)
                  ELSE objects
             ELSE IF /\ n = 1
                     /\ active_object # 0
                     /\ selected_objects[1] = active_object
             THEN ObjectsAfterLoop(objects, <<Ref(active_object)>>, 1,
                                   TRUE, TRUE)
             ELSE objects
    ELSE objects

(***************************************************************************)
(* The scene the panel is drawn for.                                       *)
(***************************************************************************)
Identity == << <<1, 0, 0>>, <<0, 1, 0>>, <<0, 0, 1>> >>
\* a quarter turn about z with x doubled (determinant 2)
TurnScale == << <<0, 2, 0>>, <<-1, 0, 0>>, <<0, 0, 1>> >>
\* z scaled to 0: no inverse
Flatten == << <<2, 0, 0>>, <<0, 2, 0>>, <<0, 0, 0>> >>
\* mirrored in z
Mirror == << <<1, 0, 0>>, <<0, 1, 0>>, <<0, 0, -1>> >>
\* x doubled
Stretch == << <<2, 0, 0>>, <<0, 1, 0>>, <<0, 0, 1>> >>

\* Four triangles around a centre vertex, in the plane z = 1.
FanCoords == << <<1, 1, 1>>, <<0, 0, 1>>, <<2, 0, 1>>, <<2, 2, 1>>, <<0, 2, 1>> >>
FanFaces == << <<1, 2, 3>>, <<1, 3, 4>>, <<1, 4, 5>>, <<1, 5, 2>> >>

TriCoords == << <<0, 0, 1>>, <<1, 0, 1>>, <<0, 1, 1>> >>
TriFaces == << <<1, 2, 3>> >>

SceneObject(i) ==
    CASE i = 1 -> MkObj("Plane", "MESH", <<1, 1, 1>>, TurnScale,
                        MkMesh(FanCoords, FanFaces, {}))
      [] i = 2 -> MkObj("Empty", "EMPTY", <<3, 4, 0>>, Identity, NoMesh)
      [] i = 3 -> MkObj("Flat", "MESH", <<0, 0, 0>>, Flatten,
                        MkMesh(TriCoords, TriFaces, {}))
      [] OTHER -> MkObj("Curve" \o ToString(i), "CURVE", <<0, 0, i>>, Identity,
                        [NoMesh EXCEPT !.valid = TRUE])

ObjIds == DOMAIN objects

CursorPositions == { <<0, 0, 0>>, <<1, 2, 2>> }

\* Vertex selections the user makes in edit mode.
VertPatterns == { {}, {4}, {4, 5}, {2, 4, 5}, {1, 2, 3}, {1, 2, 3, 4, 5} }

NoCall == [op |-> "none", args |-> <<>>, selectedOnly |-> FALSE,
           globalSpace |-> FALSE, degree |-> 0]
NoResult == [ret |-> RInt(0), text |-> ""]

Init ==
    /\ mode = "OBJECT"
    /\ measure_panel_transform = "measure_global"
    /\ selected_objects = <<>>
    /\ active_object = 0
    /\ cursor_location = <<0, 0, 0>>
    /\ objects = [i \in 1..NumObjs |-> SceneObject(i)]
    /\ unit_settings = [system |-> "NONE", scale_length |-> 1]
    /\ measure_panel_dist = RInt(0)
    /\ layout = <<>>
    /\ raised = "None"
    /\ result = NoResult
    /\ call = NoCall
    /\ mode_set_calls = <<>>

\* A change of the scene by the user: the panel is left to be redrawn.
Redraw ==
    /\ layout' = <<>>
    /\ raised' = "None"
    /\ call' = NoCall
    /\ result' = NoResult
    /\ mode_set_calls' = <<>>
    /\ UNCHANGED measure_panel_dist

IsSelected(o) == \E k \in 1..Len(selected_objects) : selected_objects[k] = o

\* context.selected_objects lists the selected objects in scene order.
SelectObject(o) ==
    /\ mode = "OBJECT"
    /\ ~IsSelected(o)
    /\ selected_objects' = SelectSeq([i \in 1..Len(objects) |-> i],
                                     LAMBDA i : i = o \/ IsSelected(i))
    /\ Redraw
    /\ UNCHANGED <<mode, measure_panel_transform, active_object,
                   cursor_location, objects, unit_settings>>

DeselectObject(o) ==
    /\ mode = "OBJECT"
    /\ IsSelected(o)
    /\ selected_objects' = SelectSeq(selected_objects, LAMBDA i : i # o)
    /\ Redraw
    /\ UNCHANGED <<mode, measure_panel_transform, active_object,
                   cursor_location, objects, unit_settings>>

SetActive(o) ==
    /\ mode = "OBJECT"
    /\ active_object # o
    /\ active_object' = o
    /\ Redraw
    /\ UNCHANGED <<mode, measure_panel_transform, selected_objects,
                   cursor_location, objects, unit_settings>>

EnterEditMode ==
    /\ mode = "OBJECT"
    /\ active_object # 0
    /\ objects[active_object].type = "MESH"
    /\ mode' = "EDIT_MESH"
    /\ Redraw
    /\ UNCHANGED <<measure_panel_transform, selected_objects, active_object,
                   cursor_location, objects, unit_settings>>

ExitEditMode ==
    /\ mode = "EDIT_MESH"
    /\ mode' = "OBJECT"
    /\ Redraw
    /\ UNCHANGED <<measure_panel_transform, selected_objects, active_object,
                   cursor_location, objects, unit_settings>>

SetSpace(s) ==
    /\ measure_panel_transform # s
    /\ measure_panel_transform' = s
    /\ Redraw
    /\ UNCHANGED <<mode, selected_objects, active_object, cursor_location,
                   objects, unit_settings>>

MoveCursor(c) ==
    /\ cursor_location # c
    /\ cursor_location' = c
    /\ Redraw
    /\ UNCHANGED <<mode, measure_panel_transform, selected_objects,
                   active_object, objects, unit_settings>>

SelectVerts(S) ==
    /\ mode = "EDIT_MESH"
    /\ LET mesh == objects[active_object].data
           coords == [i \in 1..Len(mesh.verts) |-> mesh.verts[i].co]
           faceVerts == [j \in 1..Len(mesh.faces) |-> mesh.faces[j].verts]
       IN  /\ S \subseteq 1..Len(mesh.verts)
           /\ objects' = [objects EXCEPT ![active_object].data =
                              MkMesh(coords, faceVerts, S)]
           /\ objects' # objects
    /\ Redraw
    /\ UNCHANGED <<mode, measure_panel_transform, selected_objects,
                   active_object, cursor_location, unit_settings>>

\* The host draws the panel.
DrawPanel ==
    /\ LET Show(d) == /\ measure_panel_dist' = d.dist
                       /\ layout' = d.rows
                       /\ raised' = d.exc
       IN  Show(Draw)
    /\ objects' = ObjectsAfterDraw
    /\ call' = [NoCall EXCEPT !.op = "draw"]
    /\ result' = NoResult
    /\ mode_set_calls' = <<>>
    /\ UNCHANGED <<mode, measure_panel_transform, selected_objects,
                   active_object, cursor_location, unit_settings>>

\* The user presses the panel's "Update selection" button.
ReenterEditMode ==
    /\ LET Run(r) == /\ mode' = r.mode
                     /\ mode_set_calls' = r.calls
                     /\ result' = [ret |-> RInt(0), text |-> r.ret]
       IN  Run(invoke)
    /\ call' = [NoCall EXCEPT !.op = "reenter_editmode"]
    /\ layout' = <<>>
    /\ raised' = "None"
    /\ UNCHANGED <<measure_panel_transform, selected_objects, active_object,
                   cursor_location, objects, unit_settings,
                   measure_panel_dist>>

Next ==
    \/ \E o \in ObjIds : SelectObject(o)
    \/ \E o \in ObjIds : DeselectObject(o)
    \/ \E o \in ObjIds \cup {0} : SetActive(o)
    \/ EnterEditMode
    \/ ExitEditMode
    \/ \E s \in {"measure_global", "measure_local"} : SetSpace(s)
    \/ \E c \in CursorPositions : MoveCursor(c)
    \/ \E S \in VertPatterns : SelectVerts(S)
    \/ DrawPanel
    \/ ReenterEditMode

Spec == Init /\ [][Next]_vars

(***************************************************************************)
(* The helpers called on their own, over a catalogue of objects.           *)
(***************************************************************************)
\* The unit cube, 12 triangles wound outwards.
CubeCoords == << <<0, 0, 0>>, <<1, 0, 0>>, <<1, 1, 0>>, <<0, 1, 0>>,
                 <<0, 0, 1>>, <<1, 0, 1>>, <<1, 1, 1>>, <<0, 1, 1>> >>
CubeFaces == << <<1, 4, 3>>, <<1, 3, 2>>, <<5, 6, 7>>, <<5, 7, 8>>,
                <<1, 2, 6>>, <<1, 6, 5>>, <<4, 8, 7>>, <<4, 7, 3>>,
                <<1, 5, 8>>, <<1, 8, 4>>, <<2, 3, 7>>, <<2, 7, 6>> >>

\* A strip in the plane z = 1: a quad and two triangles.
StripCoords == << <<0, 0, 1>>, <<1, 0, 1>>, <<1, 1, 1>>, <<0, 1, 1>>,
                  <<2, 0, 1>>, <<2, 1, 1>>, <<3, 0, 1>> >>
StripQuad == <<1, 2, 3, 4>>
StripTriA == <<2, 5, 6>>
StripTriB == <<5, 7, 6>>

\* Two triangles in the plane z = 1 wound clockwise seen from above.
InwardFaces == << <<1, 3, 2>>, <<2, 3, 6>> >>

CallObjects ==
    << MkObj("Cube", "MESH", <<0, 0, 0>>, Stretch,
             MkMesh(CubeCoords, CubeFaces, {5, 6, 7, 8})),
       MkObj("Inward", "MESH", <<0, 0, 1>>, Identity,
             MkMesh(StripCoords, InwardFaces, {1, 2, 3})),
       MkObj("QuadFirst", "MESH", <<0, 0, 0>>, Identity,
             MkMesh(StripCoords, <<StripQuad, StripTriA, StripTriB>>,
                    {2, 5, 6})),
       MkObj("QuadLast", "MESH", <<1, 0, 0>>, Mirror,
             MkMesh(StripCoords, <<StripTriA, StripTriB, StripQuad>>,
                    {1, 2, 3, 4})),
       MkObj("QuadMid", "MESH", <<0, 0, 0>>, Identity,
             MkMesh(StripCoords, <<StripTriA, StripQuad, StripTriB>>, {})),
       MkObj("Strip", "MESH", <<0, 0, 0>>, Mirror,
             MkMesh(StripCoords, <<StripTriA, StripTriB>>, {5, 6, 7})),
       MkObj("Empty", "EMPTY", <<3, 4, 0>>, Identity, NoMesh),
       MkObj("NoData", "MESH", <<0, 0, 0>>, Identity, NoMesh),
       MkObj("Curve", "CURVE", <<0, 0, 0>>, Identity,
             [NoMesh EXCEPT !.valid = TRUE]) >>

UnitSystems == {"NONE", "METRIC", "IMPERIAL"}

InitCalls ==
    /\ mode = "OBJECT"
    /\ measure_panel_transform \in {"measure_global", "measure_local"}
    /\ selected_objects = <<>>
    /\ active_object = 0
    /\ cursor_location = <<0, 0, 0>>
    /\ objects = CallObjects
    /\ unit_settings \in [system : UnitSystems, scale_length : 1..MaxScale]
    /\ measure_panel_dist = RInt(0)
    /\ layout = <<>>
    /\ raised = "None"
    /\ result = NoResult
    /\ call = NoCall
    /\ mode_set_calls = <<>>

Scene == <<mode, measure_panel_transform, selected_objects, active_object,
           cursor_location, objects, unit_settings, measure_panel_dist,
           mode_set_calls>>

\* The scene without the objects' data.
Context == <<mode, measure_panel_transform, selected_objects, active_object,
             cursor_location, unit_settings, measure_panel_dist,
             mode_set_calls>>

\* Values a caller passes for obj.
ObjValues == {Ref(i) : i \in ObjIds} \cup {None}

\* The objects handed to the aggregating helpers.
AggregateIds == {1, 2, 3, 6, 7}

\* Argument lists of at most MaxArgs objects.
RECURSIVE ArgLists(_)
ArgLists(k) ==
    IF k = 0 THEN {<<>>}
    ELSE ArgLists(k - 1) \cup
         {Append(a, Ref(i)) : a \in {b \in ArgLists(k - 1) : Len(b) = k - 1},
                              i \in AggregateIds}

Called(op, args, selectedOnly, globalSpace, degree) ==
    [op |-> op, args |-> args, selectedOnly |-> selectedOnly,
     globalSpace |-> globalSpace, degree |-> degree]

CallUnits(degree) ==
    /\ call = NoCall
    /\ result' = [ret |-> RInt(0), text |-> units(degree)]
    /\ raised' = "None"
    /\ layout' = <<>>
    /\ call' = Called("units", <<>>, FALSE, FALSE, degree)
    /\ UNCHANGED Scene

CallObjectSurfaceArea(obj, selectedOnly, globalSpace) ==
    /\ call = NoCall
    /\ LET Return(r) == /\ result' = [ret |-> r.ret, text |-> ""]
                        /\ raised' = r.exc
       IN  Return(objectSurfaceArea(obj, selectedOnly, globalSpace))
    /\ layout' = <<>>
    /\ objects' = ObjectsAfterArea(objects, obj, globalSpace)
    /\ call' = Called("objectSurfaceArea", <<obj>>, selectedOnly, globalSpace, 0)
    /\ UNCHANGED Context

CallObjectVolume(obj, globalSpace) ==
    /\ call = NoCall
    /\ LET Return(r) == /\ result' = [ret |-> r.ret, text |-> ""]
                        /\ raised' = r.exc
       IN  Return(objectVolume(obj, globalSpace))
    /\ layout' = <<>>
    /\ objects' = ObjectsAfterVolume(objects, obj, globalSpace)
    /\ call' = Called("objectVolume", <<obj>>, FALSE, globalSpace, 0)
    /\ UNCHANGED Context

CallAddObjectAreas(objs) ==
    /\ call = NoCall
    /\ LET Return(r) == /\ result' = [ret |-> r.ret, text |-> ""]
                        /\ raised' = r.exc
                        /\ layout' = r.rows
       IN  Return(addObjectAreas(objs))
    /\ objects' = ObjectsAfterLoop(objects, objs, 1, TRUE, FALSE)
    /\ call' = Called("addObjectAreas", objs, FALSE, measureGlobal, 0)
    /\ UNCHANGED Context

CallAddAreasAndVolumes(objs) ==
    /\ call = NoCall
    /\ LET Return(r) == /\ result' = [ret |-> r.ret, text |-> ""]
                        /\ raised' = r.exc
                        /\ layout' = r.rows
       IN  Return(addAreasAndVolumes(objs))
    /\ objects' = ObjectsAfterLoop(objects, objs, 1, TRUE, TRUE)
    /\ call' = Called("addAreasAndVolumes", objs, FALSE, measureGlobal, 0)
    /\ UNCHANGED Context

CallAddObjectVolumes(objs) ==
    /\ call = NoCall
    /\ LET Return(r) == /\ result' = [ret |-> r.ret, text |-> ""]
                        /\ raised' = r.exc
                        /\ layout' = r.rows
       IN  Return(addObjectVolumes(objs))
    /\ objects' = ObjectsAfterLoop(objects, objs, 1, FALSE, TRUE)
    /\ call' = Called("addObjectVolumes", objs, FALSE, measureGlobal, 0)
    /\ UNCHANGED Context

\* The caller takes the result; the panel is idle again.
Return ==
    /\ call # NoCall
    /\ result' = NoResult
    /\ raised' = "None"
    /\ layout' = <<>>
    /\ call' = NoCall
    /\ UNCHANGED Scene

NextCalls ==
    \/ \E degree \in -1..MaxDegree : CallUnits(degree)
    \/ \E obj \in ObjValues, selectedOnly \in BOOLEAN, globalSpace \in BOOLEAN :
           CallObjectSurfaceArea(obj, selectedOnly, globalSpace)
    \/ \E obj \in ObjValues, globalSpace \in BOOLEAN :
           CallObjectVolume(obj, globalSpace)
    \/ \E objs \in ArgLists(MaxArgs) : CallAddObjectAreas(objs)
    \/ \E objs \in ArgLists(MaxArgs) : CallAddAreasAndVolumes(objs)
    \/ \E objs \in ArgLists(MaxArgs) : CallAddObjectVolumes(objs)
    \/ Return

SpecCalls == InitCalls /\ [][NextCalls]_vars

(***************************************************************************)
(* The panel drawn, and its two measuring helpers called, on the scene as  *)
(* the user changes it.                                                    *)
(***************************************************************************)
\* Vertex selections: none, and the three vertices of the first face.
FramePatterns == { {}, {1, 2, 3} }

NextFrame ==
    \/ \E o \in ObjIds : SelectObject(o)
    \/ \E o \in ObjIds \cup {0} : SetActive(o)
    \/ EnterEditMode
    \/ ExitEditMode
    \/ \E s \in {"measure_global", "measure_local"} : SetSpace(s)
    \/ \E S \in FramePatterns : SelectVerts(S)
    \/ DrawPanel
    \/ \E obj \in ObjValues, selectedOnly \in BOOLEAN, globalSpace \in BOOLEAN :
           CallObjectSurfaceArea(obj, selectedOnly, globalSpace)
    \/ \E obj \in ObjValues, globalSpace \in BOOLEAN :
           CallObjectVolume(obj, globalSpace)
    \/ Return

SpecFrame == Init /\ [][NextFrame]_vars

(***************************************************************************)
(* Properties.                                                             *)
(***************************************************************************)
AfterDraw == call.op = "draw"

HasLabel(text) ==
    \E i \in 1..Len(layout) : \E j \in 1..Len(layout[i]) :
        layout[i][j].kind = "label" /\ layout[i][j].text = text

HasValueLabel(text, value) ==
    \E i \in 1..Len(layout) : \E j \in 1..Len(layout[i]) :
        /\ layout[i][j].kind = "label"
        /\ layout[i][j].text = text
        /\ layout[i][j].hasval
        /\ layout[i][j].value = Round(value)

\* The area and the volume of object o are both shown.
ReportsAreaAndVolume(o) ==
    /\ HasLabel(objects[o].name \o " S.A.: ")
    /\ HasLabel(objects[o].name \o " Vol.: ")

\* C1: in object mode with exactly 2 objects selected, draw() sets
\* measure_panel_dist to the distance between the two locations, reports
\* the area and the volume of both objects, and returns normally.
C1_TwoObjectsDistanceAndMeasures ==
    (AfterDraw /\ mode = "OBJECT" /\ Len(selected_objects) = 2) =>
        /\ measure_panel_dist =
               RInt(Length2(VSub(objects[selected_objects[2]].location,
                                 objects[selected_objects[1]].location)))
        /\ ReportsAreaAndVolume(selected_objects[1])
        /\ ReportsAreaAndVolume(selected_objects[2])
        /\ raised = "None"

MoreThanTwoWithMesh ==
    /\ mode = "OBJECT"
    /\ Len(selected_objects) > 2
    /\ \E k \in 1..Len(selected_objects) : IsMeshWithData(Ref(selected_objects[k]))

\* C2: in object mode with more than 2 objects selected, one of them a
\* mesh, a draw() step reports area and volume of every selected mesh with
\* a Total Area and a Total Volume, and leaves measure_panel_dist alone.
C2_ManyObjectsTotals ==
    [][(call'.op = "draw" /\ MoreThanTwoWithMesh) =>
          /\ raised' = "None"
          /\ \A k \in 1..Len(selected_objects) :
                 IsMeshWithData(Ref(selected_objects[k])) =>
                 /\ \E i \in 1..Len(layout') : \E j \in 1..Len(layout'[i]) :
                         layout'[i][j].text =
                             objects[selected_objects[k]].name \o " S.A.: "
                 /\ \E i \in 1..Len(layout') : \E j \in 1..Len(layout'[i]) :
                         layout'[i][j].text =
                             objects[selected_objects[k]].name \o " Vol.: "
          /\ \E i \in 1..Len(layout') : layout'[i][1].text = "Total Area: "
          /\ \E i \in 1..Len(layout') : layout'[i][1].text = "Total Volume: "
          /\ measure_panel_dist' = measure_panel_dist]_vars

EditingMesh ==
    mode = "EDIT_MESH" /\ active_object # 0 /\ IsMeshWithData(Ref(active_object))

SelectedVerts == SelectSeq(objects[active_object].data.verts,
                           LAMBDA v : v.selected)
SelectedFaces == SelectSeq(objects[active_object].data.faces,
                           LAMBDA f : f.selected)

\* C3: in edit mode with exactly 2 vertices selected, draw() sets
\* measure_panel_dist to their distance: the length of the difference of
\* the local coordinates in Local space, the length of that difference
\* times the object matrix in Global space.
C3_TwoVerticesDistance ==
    (AfterDraw /\ EditingMesh /\ Len(SelectedVerts) = 2) =>
        /\ raised = "None"
        /\ measure_panel_dist =
               IF measureLocal
               THEN RInt(Length2(VSub(SelectedVerts[1].co, SelectedVerts[2].co)))
               ELSE RInt(Length2(VecMulMat(VSub(SelectedVerts[1].co,
                                                SelectedVerts[2].co),
                                           objects[active_object].matrix)))

\* C4: draw() never ends in an exception, whatever the mode, the space,
\* the selection and the object matrix.
C4_DrawNeverRaises == AfterDraw => raised = "None"

\* C7: in object mode with exactly 1 object selected, draw() sets
\* measure_panel_dist to the distance of that object to the 3D cursor and
\* reports its area and volume, whichever object is active.
C7_OneObjectToCursor ==
    (AfterDraw /\ mode = "OBJECT" /\ Len(selected_objects) = 1) =>
        /\ measure_panel_dist =
               RInt(Length2(VSub(objects[selected_objects[1]].location,
                                 cursor_location)))
        /\ ReportsAreaAndVolume(selected_objects[1])
        /\ raised = "None"

\* The mesh objectSurfaceArea and objectVolume measure for object o.
MeasuredMesh(o, globalSpace) ==
    IF globalSpace THEN Transform(objects[o].data, objects[o].matrix)
    ELSE objects[o].data

IsMeshObject(v) == v.t = "obj" /\ IsMeshWithData(v)

\* Sum of (v0 x v1) . v2 over the faces J of the mesh.
RECURSIVE SumTriples(_, _)
SumTriples(mesh, J) ==
    IF J = {} THEN 0
    ELSE LET j == CHOOSE x \in J : TRUE
             co(k) == mesh.verts[mesh.faces[j].verts[k]].co
         IN  Dot(Cross(co(1), co(2)), co(3)) + SumTriples(mesh, J \ {j})

\* Sum of the face areas over the faces J of the mesh.
RECURSIVE SumAreas(_, _)
SumAreas(mesh, J) ==
    IF J = {} THEN RInt(0)
    ELSE LET j == CHOOSE x \in J : TRUE
         IN  RAdd(FaceArea(mesh, mesh.faces[j]), SumAreas(mesh, J \ {j}))

AllTriangles(mesh) == \A j \in DOMAIN mesh.faces : Len(mesh.faces[j].verts) <= 3

Scale == unit_settings.scale_length

\* The signed volume of a mesh of triangles.
SignedVolume(v, globalSpace) ==
    LET mesh == MeasuredMesh(v.id, globalSpace)
    IN  Rat(SumTriples(mesh, DOMAIN mesh.faces) * Scale * Scale * Scale, 6)

\* objectVolume is supported: a mesh with only triangular faces.
VolumeSupported(v, globalSpace) ==
    IsMeshObject(v) /\ AllTriangles(MeasuredMesh(v.id, globalSpace))

\* Sum of the signed volumes of the objects objs[k], k in K, that are
\* supported and, unless negativeToo, not negative.
RECURSIVE VolumeSum(_, _, _, _)
VolumeSum(objs, K, globalSpace, negativeToo) ==
    IF K = {} THEN RInt(0)
    ELSE LET k == CHOOSE x \in K : TRUE
             rest == VolumeSum(objs, K \ {k}, globalSpace, negativeToo)
         IN  IF /\ VolumeSupported(objs[k], globalSpace)
                /\ negativeToo \/ SignedVolume(objs[k], globalSpace).n >= 0
             THEN RAdd(SignedVolume(objs[k], globalSpace), rest)
             ELSE rest

AfterVolumeTotal == call.op \in {"addObjectVolumes", "addAreasAndVolumes"}

\* The total a volume aggregation has come to: the value addObjectVolumes
\* returned, the Total Volume row of addAreasAndVolumes.
TotalVolumeIs(x) ==
    /\ raised = "None"
    /\ call.op = "addObjectVolumes" => result.ret = x
    /\ (call.op = "addAreasAndVolumes" /\ Len(call.args) > 1 /\ x.n >= 0) =>
           HasValueLabel("Total Volume: ", x)

\* C5 as stated: the total volume is the sum of the signed volumes of
\* exactly the supported objects, negative ones included.
C5_TotalIsSignedSum ==
    AfterVolumeTotal =>
        TotalVolumeIs(VolumeSum(call.args, DOMAIN call.args, call.globalSpace,
                                TRUE))

\* C5 amended: the total volume is the sum of the volumes of exactly the
\* supported objects whose signed volume is not negative; unsupported
\* objects and objects of negative volume are skipped, the loop goes on.
C5_TotalIsNonNegativeSum ==
    AfterVolumeTotal =>
        TotalVolumeIs(VolumeSum(call.args, DOMAIN call.args, call.globalSpace,
                                FALSE))

\* An unsupported object, later a supported one of positive volume, and
\* one of negative volume, were aggregated.
C5_Witness ==
    /\ call.op = "addObjectVolumes"
    /\ \E i, k \in DOMAIN call.args :
           /\ i < k
           /\ ~VolumeSupported(call.args[i], call.globalSpace)
           /\ VolumeSupported(call.args[k], call.globalSpace)
           /\ SignedVolume(call.args[k], call.globalSpace).n > 0
    /\ \E j \in DOMAIN call.args :
           /\ VolumeSupported(call.args[j], call.globalSpace)
           /\ SignedVolume(call.args[j], call.globalSpace).n < 0
    /\ result.ret.n > 0
    /\ raised = "None"

\* C6: objectVolume of a mesh returns -1 when any face has more than 3
\* vertices, wherever the face is in the list, and else
\* (sum over faces of (v0 x v1) . v2) / 6 * scale_length^3.
C6_VolumeOrUnsupported ==
    (call.op = "objectVolume" /\ IsMeshObject(call.args[1])) =>
        LET mesh == MeasuredMesh(call.args[1].id, call.globalSpace)
        IN  /\ raised = "None"
            /\ result.ret =
                   IF \E j \in DOMAIN mesh.faces : Len(mesh.faces[j].verts) > 3
                   THEN RInt(-1)
                   ELSE SignedVolume(call.args[1], call.globalSpace)

\* A quad that follows triangles of non-zero partial sum gave -1.
C6_Witness ==
    /\ call.op = "objectVolume"
    /\ IsMeshObject(call.args[1])
    /\ LET mesh == MeasuredMesh(call.args[1].id, call.globalSpace)
       IN  \E j \in DOMAIN mesh.faces :
               /\ Len(mesh.faces[j].verts) > 3
               /\ \A i \in 1..(j - 1) : Len(mesh.faces[i].verts) = 3
               /\ SumTriples(mesh, 1..(j - 1)) # 0
    /\ result.ret = RInt(-1)

ManyVertsSelected == AfterDraw /\ EditingMesh /\ Len(SelectedVerts) > 2

ShowsArea ==
    /\ HasLabel("Selected Face Area: ")
    /\ ~HasLabel("Selection not supported.")
ShowsNotSupported ==
    /\ HasLabel("Selection not supported.")
    /\ ~HasLabel("Selected Face Area: ")

\* C8 as stated: with 3 or more vertices selected in edit mode, draw()
\* shows the selected-face area exactly when at least 3 faces are
\* selected, and "Selection not supported." otherwise.
C8_AreaFromThreeFaces ==
    ManyVertsSelected =>
        IF Len(SelectedFaces) >= 3 THEN ShowsArea ELSE ShowsNotSupported

\* C8 amended: with 3 or more vertices selected in edit mode, draw() shows
\* the selected-face area exactly when at least 1 face is selected, and
\* "Selection not supported." otherwise; on an object matrix without an
\* inverse it raises ValueError before the dispatch and shows no row.
C8_AreaFromOneFace ==
    ManyVertsSelected =>
        IF Det3(objects[active_object].matrix.lin) = 0
        THEN raised = "ValueError" /\ layout = <<>>
        ELSE /\ raised = "None"
             /\ IF Len(SelectedFaces) >= 1 THEN ShowsArea
                ELSE ShowsNotSupported

\* Exactly one face is selected and its area is shown.
C8_Witness ==
    /\ ManyVertsSelected
    /\ Len(SelectedFaces) = 1
    /\ ShowsArea
    /\ raised = "None"

BaseUnit ==
    CASE unit_settings.system = "METRIC" -> "m"
      [] unit_settings.system = "IMPERIAL" -> "yd"
      [] OTHER -> "BU"

Exponent == <<"^1", "^2", "^3">>

\* C9 as stated: units(degree) is "m", "yd" or "BU" by the unit system,
\* with "^degree" appended exactly when degree is 2 or 3.
C9_SuffixForTwoAndThree ==
    call.op = "units" =>
        result.text = IF call.degree \in {2, 3}
                      THEN BaseUnit \o Exponent[call.degree]
                      ELSE BaseUnit

\* C9 amended: units(degree) is "m", "yd" or "BU" by the unit system,
\* with "^degree" appended exactly when 0 < degree < 4 (1, 2 or 3).
C9_SuffixForOneToThree ==
    call.op = "units" =>
        result.text = IF call.degree \in {1, 2, 3}
                      THEN BaseUnit \o Exponent[call.degree]
                      ELSE BaseUnit

\* units(1) gave "m^1".
C9_Witness ==
    /\ call.op = "units"
    /\ call.degree = 1
    /\ unit_settings.system = "METRIC"
    /\ result.text = "m^1"

\* The faces of the mesh whose selected flag is set.
SelectedFaceIds(mesh) == {j \in DOMAIN mesh.faces : mesh.faces[j].selected}

\* C10: objectSurfaceArea of a mesh object is scale_length^2 times the sum
\* of the areas of the selected faces alone when selectedOnly is set, of
\* all faces when it is not; for any other object it is -1.
C10_AreaOfSelectedFaces ==
    call.op = "objectSurfaceArea" =>
        /\ raised = "None"
        /\ result.ret =
               IF IsMeshObject(call.args[1])
               THEN LET mesh == MeasuredMesh(call.args[1].id, call.globalSpace)
                    IN  RMul(SumAreas(mesh, IF call.selectedOnly
                                            THEN SelectedFaceIds(mesh)
                                            ELSE DOMAIN mesh.faces),
                             RInt(Scale * Scale))
               ELSE RInt(-1)

\* selectedOnly on a mesh with selected and unselected faces of non-zero
\* area: the result is the selected part alone.
C10_Witness ==
    /\ call.op = "objectSurfaceArea"
    /\ call.selectedOnly
    /\ IsMeshObject(call.args[1])
    /\ LET mesh == MeasuredMesh(call.args[1].id, call.globalSpace)
       IN  /\ SumAreas(mesh, SelectedFaceIds(mesh)).n > 0
           /\ SumAreas(mesh, DOMAIN mesh.faces \ SelectedFaceIds(mesh)).n > 0
           /\ result.ret = RMul(SumAreas(mesh, SelectedFaceIds(mesh)),
                                RInt(Scale * Scale))

PanelCalls == {"draw", "objectSurfaceArea", "objectVolume"}

\* C11: a step of draw(), objectSurfaceArea or objectVolume, in any mode
\* and space, leaves every object's own mesh (vertex coordinates, faces,
\* selected flags of vertices and faces) and the selected objects as they
\* were: the object matrix is applied to a copy only.
C11_MeshesAndSelectionKept ==
    [][call'.op \in PanelCalls =>
          /\ objects' = objects
          /\ selected_objects' = selected_objects]_vars

\* A global-space measurement was made, by draw() or by a helper, of a mesh
\* with selected vertices that its object matrix moves, and the mesh still
\* holds its local coordinates.
C11_Witness ==
    /\ raised = "None"
    /\ measureGlobal
    /\ EditingMesh
    /\ Len(SelectedVerts) > 2
    /\ Transform(objects[active_object].data, objects[active_object].matrix)
           # objects[active_object].data
    /\ objects[active_object].data.verts[1].co =
           SceneObject(active_object).data.verts[1].co
    /\ \/ AfterDraw /\ ShowsArea
       \/ /\ call.op \in {"objectSurfaceArea", "objectVolume"}
          /\ call.globalSpace
          /\ call.args[1] = Ref(active_object)

\* The operator's condition: an active object that is a mesh, in mesh edit
\* mode.
EditingActiveMesh ==
    /\ active_object # 0
    /\ objects[active_object].type = "MESH"
    /\ mode = "EDIT_MESH"

\* C12: a run of reenter_editmode returns FINISHED exactly when the active
\* object exists, is a mesh and the mode is EDIT_MESH, and then it has set
\* the mode to OBJECT and then to EDIT, in that order, and ends in edit
\* mode; in every other state it returns CANCELLED, sets no mode and
\* leaves the mode as it was.
C12_ReenterEditMode ==
    [][call'.op = "reenter_editmode" =>
          IF EditingActiveMesh
          THEN /\ result'.text = "FINISHED"
               /\ mode_set_calls' = <<"OBJECT", "EDIT">>
               /\ mode' = "EDIT_MESH"
          ELSE /\ result'.text = "CANCELLED"
               /\ mode_set_calls' = <<>>
               /\ mode' = mode]_vars

\* The operator ran in edit mode on a mesh with vertices selected: FINISHED
\* after OBJECT then EDIT, and the mode is edit mode again.
C12_Witness ==
    /\ call.op = "reenter_editmode"
    /\ result.text = "FINISHED"
    /\ mode_set_calls = <<"OBJECT", "EDIT">>
    /\ EditingActiveMesh
    /\ Len(SelectedVerts) > 0

====
